---------------------------- MODULE Spec2Model ----------------------------
(***************************************************************************)
(* A model of the appointment-CSV converter (src/convert_appointment.py;   *)
(* src/api/index.py carries a verbatim copy of the same functions).        *)
(*                                                                         *)
(* Python strings are TLA+ strings; TLC evaluates Len, SubSeq, Head, Tail  *)
(* and \o on them, so every text operation below works character by        *)
(* character, as the Python code does.                                     *)
(***************************************************************************)
EXTENDS Integers, Sequences, FiniteSets, TLC

(***************************************************************************)
(* Characters and the str methods the converter calls.                     *)
(***************************************************************************)
Char(s, i) == SubSeq(s, i, i)

Digits == {"0", "1", "2", "3", "4", "5", "6", "7", "8", "9"}

Whitespace == {" ", "\t"}

IsDigit(c) == c \in Digits

IsSpace(c) == c \in Whitespace

LowerLetters == "abcdefghijklmnopqrstuvwxyz"

UpperLetters == "ABCDEFGHIJKLMNOPQRSTUVWXYZ"

IsLower(c) == \E i \in 1..26 : Char(LowerLetters, i) = c

IsUpper(c) == \E i \in 1..26 : Char(UpperLetters, i) = c

LetterIndex(c, letters) == CHOOSE i \in 1..26 : Char(letters, i) = c

\* str.upper() / str.lower() of one character
UpperChar(c) == IF IsLower(c) THEN Char(UpperLetters, LetterIndex(c, LowerLetters)) ELSE c

LowerChar(c) == IF IsUpper(c) THEN Char(LowerLetters, LetterIndex(c, UpperLetters)) ELSE c

RECURSIVE LowerStr(_)
LowerStr(s) == IF s = "" THEN "" ELSE LowerChar(Head(s)) \o LowerStr(Tail(s))

\* mutant: the first character upper-cased and the others left alone
Capitalize_FirstOnly(s) == IF s = "" THEN "" ELSE UpperChar(Head(s)) \o Tail(s)

\* str.capitalize(): first character upper-cased, ALL the others lower-cased
Capitalize(s) == IF s = "" THEN "" ELSE UpperChar(Head(s)) \o LowerStr(Tail(s))

RECURSIVE LStrip(_)
LStrip(s) == IF s # "" /\ IsSpace(Head(s)) THEN LStrip(Tail(s)) ELSE s

RECURSIVE RStrip(_)
RStrip(s) ==
  IF s # "" /\ IsSpace(Char(s, Len(s))) THEN RStrip(SubSeq(s, 1, Len(s) - 1)) ELSE s

\* str.strip()
Strip(s) == RStrip(LStrip(s))

\* the first whitespace-delimited word at the front of s (s has no leading space)
RECURSIVE WordLen(_)
WordLen(s) == IF s = "" \/ IsSpace(Head(s)) THEN 0 ELSE 1 + WordLen(Tail(s))

\* str.split(): the words between runs of whitespace, none of them empty
RECURSIVE Split(_)
Split(s) ==
  LET t == LStrip(s)
      n == WordLen(t)
  IN  IF t = "" THEN << >>
      ELSE << SubSeq(t, 1, n) >> \o Split(SubSeq(t, n + 1, Len(t)))

\* sep.join(parts)
RECURSIVE Join(_, _)
Join(parts, sep) ==
  IF parts = << >> THEN ""
  ELSE IF Len(parts) = 1 THEN parts[1]
  ELSE parts[1] \o sep \o Join(Tail(parts), sep)

\* sub in s
Contains(s, sub) ==
  \E i \in 1..(Len(s) - Len(sub) + 1) : SubSeq(s, i, i + Len(sub) - 1) = sub

\* str.isdigit()
AllDigits(s) == s # "" /\ \A i \in 1..Len(s) : IsDigit(Char(s, i))

\* re.sub(r"\D", "", number)
RECURSIVE OnlyDigits(_)
OnlyDigits(s) ==
  IF s = "" THEN ""
  ELSE (IF IsDigit(Head(s)) THEN Head(s) ELSE "") \o OnlyDigits(Tail(s))

(***************************************************************************)
(* normalize_phone                                                         *)
(***************************************************************************)
\* mutant: home before cell
PHONE_PRIORITY_HomeFirst == << "H", "C", "W", "B" >>

PHONE_PRIORITY == << "C", "H", "W", "B" >>

PhoneLabels == {"C", "H", "W", "B"}

\* the character class [0-9\s\-\(\)]
IsPhoneChar(c) == IsDigit(c) \/ IsSpace(c) \/ c \in {"-", "(", ")"}

\* the last index of the run of class characters that starts at q
RECURSIVE RunEnd(_, _)
RunEnd(raw, q) ==
  IF q + 1 <= Len(raw) /\ IsPhoneChar(Char(raw, q + 1)) THEN RunEnd(raw, q + 1) ELSE q

\* (C|H|W|B):\s*([0-9\s\-\(\)]+) matches at position p
MatchAt(raw, p) ==
  /\ p + 2 <= Len(raw)
  /\ Char(raw, p) \in PhoneLabels
  /\ Char(raw, p + 1) = ":"
  /\ IsPhoneChar(Char(raw, p + 2))

\* group 2 of the match at p: \s* is greedy but gives back one character when
\* the whole run is whitespace
NumberGroup(raw, p) ==
  LET e   == RunEnd(raw, p + 2)
      run == SubSeq(raw, p + 2, e)
      t   == LStrip(run)
  IN  IF t = "" THEN Char(run, Len(run)) ELSE t

\* phones[label] = digits
DictSet(d, k, v) == [x \in (DOMAIN d) \cup {k} |-> IF x = k THEN v ELSE d[x]]

EmptyDict == [x \in {} |-> ""]

\* re.findall, left to right without overlap, folded into the phones dict
RECURSIVE CollectPhones(_, _, _)
CollectPhones(raw, p, phones) ==
  IF p > Len(raw) THEN phones
  ELSE IF MatchAt(raw, p)
       THEN LET digits == OnlyDigits(NumberGroup(raw, p))
            IN  CollectPhones(raw, RunEnd(raw, p + 2) + 1,
                              IF digits # "" THEN DictSet(phones, Char(raw, p), digits)
                              ELSE phones)
       ELSE CollectPhones(raw, p + 1, phones)

\* for label in PHONE_PRIORITY: if label in phones: return phones[label]
RECURSIVE FirstByPriority(_, _)
FirstByPriority(phones, k) ==
  IF k > Len(PHONE_PRIORITY) THEN ""
  ELSE IF PHONE_PRIORITY[k] \in DOMAIN phones THEN phones[PHONE_PRIORITY[k]]
  ELSE FirstByPriority(phones, k + 1)

normalize_phone(raw) ==
  IF raw = "" THEN "" ELSE FirstByPriority(CollectPhones(raw, 1, EmptyDict), 1)

(***************************************************************************)
(* split_name.  A whitespace-only name makes parts empty and parts[-1]     *)
(* raises IndexError; the result is then the 1-tuple <<"IndexError">>.     *)
(***************************************************************************)
split_name(full) ==
  IF full = "" THEN << "", "" >>
  ELSE LET parts == Split(Strip(full))
       IN  IF Len(parts) = 1 THEN << parts[1], "" >>
           ELSE IF Len(parts) = 0 THEN << "IndexError" >>
           ELSE << Join(SubSeq(parts, 1, Len(parts) - 1), " "), parts[Len(parts)] >>

(***************************************************************************)
(* parse_vehicle                                                           *)
(***************************************************************************)
\* mutant: the year is the first two digits of the first token
parse_vehicle_CenturyDigits(vehicle) ==
  IF vehicle = "" \/ Len(vehicle) < 5 THEN << "", "", "" >>
  ELSE LET parts == Split(vehicle)
       IN  IF Len(parts) < 2 THEN << "", "", "" >>
           ELSE IF ~AllDigits(parts[1]) \/ Len(parts[1]) # 4 THEN << "", "", "" >>
           ELSE << SubSeq(parts[1], 1, 2),
                   parts[2],
                   IF Len(parts) > 2 THEN Join(SubSeq(parts, 3, Len(parts)), " ") ELSE "" >>

parse_vehicle(vehicle) ==
  IF vehicle = "" \/ Len(vehicle) < 5 THEN << "", "", "" >>
  ELSE LET parts == Split(vehicle)
       IN  IF Len(parts) < 2 THEN << "", "", "" >>
           ELSE IF ~AllDigits(parts[1]) \/ Len(parts[1]) # 4 THEN << "", "", "" >>
           ELSE << SubSeq(parts[1], 3, 4),
                   parts[2],
                   IF Len(parts) > 2 THEN Join(SubSeq(parts, 3, Len(parts)), " ") ELSE "" >>

(***************************************************************************)
(* parse_datetime: datetime.strptime(dt_str.strip(), "%m/%d/%Y %I:%M:%S %p")*)
(* then strftime.  strptime compiles the format to the regular expression  *)
(*   (1[0-2]|0[1-9]|[1-9])/(3[0-1]|[1-2]\d|0[1-9]|[1-9]| [1-9])/(\d\d\d\d)  *)
(*   \s+(1[0-2]|0[1-9]|[1-9]):([0-5]\d|\d):(6[0-1]|[0-5]\d|\d)\s+(am|pm)    *)
(* matched ignoring case against the whole string; the fields then have to *)
(* make a valid datetime.                                                  *)
(***************************************************************************)
\* the first index >= from at which s holds c, or 0
RECURSIVE IndexOf(_, _, _)
IndexOf(s, c, from) ==
  IF from > Len(s) THEN 0
  ELSE IF Char(s, from) = c THEN from
  ELSE IndexOf(s, c, from + 1)

\* the first index >= from at which s does not hold whitespace (Len(s)+1 if none)
RECURSIVE SkipSpace(_, _)
SkipSpace(s, from) ==
  IF from <= Len(s) /\ IsSpace(Char(s, from)) THEN SkipSpace(s, from + 1) ELSE from

\* the first index >= from at which s does not hold a digit (Len(s)+1 if none)
RECURSIVE SkipDigits(_, _)
SkipDigits(s, from) ==
  IF from <= Len(s) /\ IsDigit(Char(s, from)) THEN SkipDigits(s, from + 1) ELSE from

DigitValue(c) == CHOOSE n \in 0..9 : Char("0123456789", n + 1) = c

\* int() of a run of digits, a leading blank ignored
RECURSIVE ToInt(_)
ToInt(t) ==
  IF t = "" THEN 0
  ELSE IF Char(t, Len(t)) = " " THEN 0
  ELSE DigitValue(Char(t, Len(t))) + 10 * ToInt(SubSeq(t, 1, Len(t) - 1))

NonZeroDigit(c) == IsDigit(c) /\ c # "0"

\* mutant: two digits only, 01 to 12
IsMonthTok_Padded(t) ==
  \/ Len(t) = 2 /\ Char(t, 1) = "1" /\ Char(t, 2) \in {"0", "1", "2"}
  \/ Len(t) = 2 /\ Char(t, 1) = "0" /\ NonZeroDigit(Char(t, 2))

\* 1[0-2]|0[1-9]|[1-9]   (%m and %I)
IsMonthTok(t) ==
  \/ Len(t) = 2 /\ Char(t, 1) = "1" /\ Char(t, 2) \in {"0", "1", "2"}
  \/ Len(t) = 2 /\ Char(t, 1) = "0" /\ NonZeroDigit(Char(t, 2))
  \/ Len(t) = 1 /\ NonZeroDigit(t)

\* 3[0-1]|[1-2]\d|0[1-9]|[1-9]| [1-9]   (%d)
IsDayTok(t) ==
  \/ Len(t) = 2 /\ Char(t, 1) = "3" /\ Char(t, 2) \in {"0", "1"}
  \/ Len(t) = 2 /\ Char(t, 1) \in {"1", "2"} /\ IsDigit(Char(t, 2))
  \/ Len(t) = 2 /\ Char(t, 1) \in {"0", " "} /\ NonZeroDigit(Char(t, 2))
  \/ Len(t) = 1 /\ NonZeroDigit(t)

\* [0-5]\d|\d   (%M)
IsMinuteTok(t) ==
  \/ Len(t) = 2 /\ Char(t, 1) \in {"0", "1", "2", "3", "4", "5"} /\ IsDigit(Char(t, 2))
  \/ Len(t) = 1 /\ IsDigit(t)

\* 6[0-1]|[0-5]\d|\d   (%S)
IsSecondTok(t) ==
  \/ Len(t) = 2 /\ Char(t, 1) = "6" /\ Char(t, 2) \in {"0", "1"}
  \/ IsMinuteTok(t)

IsLeap(y) == y % 4 = 0 /\ (y % 100 # 0 \/ y % 400 = 0)

DaysInMonth(y, m) ==
  IF m = 2 THEN (IF IsLeap(y) THEN 29 ELSE 28)
  ELSE IF m \in {4, 6, 9, 11} THEN 30 ELSE 31

RECURSIVE DaysBeforeMonth(_, _)
DaysBeforeMonth(y, m) ==
  IF m = 1 THEN 0 ELSE DaysBeforeMonth(y, m - 1) + DaysInMonth(y, m - 1)

\* date.toordinal(): 1 for 0001-01-01
Ordinal(y, m, d) ==
  (y - 1) * 365 + ((y - 1) \div 4) - ((y - 1) \div 100) + ((y - 1) \div 400)
  + DaysBeforeMonth(y, m) + d

WeekdayNames ==
  << "Monday", "Tuesday", "Wednesday", "Thursday", "Friday", "Saturday", "Sunday" >>

MonthNames ==
  << "January", "February", "March", "April", "May", "June", "July", "August",
     "September", "October", "November", "December" >>

\* mutant: the week counted from Sunday
Weekday_FromSunday(y, m, d) == Ordinal(y, m, d) % 7

\* date.weekday(): 0 for Monday
Weekday(y, m, d) == (Ordinal(y, m, d) + 6) % 7

DigitStr(n) == Char("0123456789", n + 1)

\* str(n) for 0 <= n <= 99
IntStr(n) == IF n < 10 THEN DigitStr(n) ELSE DigitStr(n \div 10) \o DigitStr(n % 10)

\* %H and %M: two digits, zero-padded
TwoDigits(n) == DigitStr(n \div 10) \o DigitStr(n % 10)

NoDate == [ok |-> FALSE, year |-> 0, month |-> 0, day |-> 0, hour |-> 0, minute |-> 0]

\* datetime.strptime(s, "%m/%d/%Y %I:%M:%S %p"); ok is FALSE where it raises ValueError
Strptime(s) ==
  LET p1 == IndexOf(s, "/", 1)
      p2 == IF p1 = 0 THEN 0 ELSE IndexOf(s, "/", p1 + 1)
      mT == SubSeq(s, 1, p1 - 1)
      dT == SubSeq(s, p1 + 1, p2 - 1)
      yT == SubSeq(s, p2 + 1, p2 + 4)
      iS == SkipSpace(s, p2 + 5)
      p3 == IF p2 = 0 THEN 0 ELSE IndexOf(s, ":", iS)
      p4 == IF p3 = 0 THEN 0 ELSE IndexOf(s, ":", p3 + 1)
      iT == SubSeq(s, iS, p3 - 1)
      nT == SubSeq(s, p3 + 1, p4 - 1)
      sE == SkipDigits(s, p4 + 1)
      sT == SubSeq(s, p4 + 1, sE - 1)
      pS == SkipSpace(s, sE)
      pT == LowerStr(SubSeq(s, pS, Len(s)))
      matched ==
        /\ p1 > 0 /\ p2 > 0 /\ p3 > 0 /\ p4 > 0
        /\ IsMonthTok(mT)
        /\ IsDayTok(dT)
        /\ Len(yT) = 4 /\ AllDigits(yT)
        /\ iS > p2 + 5
        /\ IsMonthTok(iT)
        /\ IsMinuteTok(nT)
        /\ IsSecondTok(sT)
        /\ pS > sE
        /\ pT \in {"am", "pm"}
      y  == ToInt(yT)
      mo == ToInt(mT)
      d  == ToInt(dT)
      h  == ToInt(iT)
  IN  IF ~matched THEN NoDate
      ELSE IF y < 1 \/ d > DaysInMonth(y, mo) \/ ToInt(sT) > 59 THEN NoDate
      ELSE [ok |-> TRUE, year |-> y, month |-> mo, day |-> d,
            hour |-> IF pT = "am" THEN (IF h = 12 THEN 0 ELSE h)
                     ELSE (IF h = 12 THEN 12 ELSE h + 12),
            minute |-> ToInt(nT)]

parse_datetime(dt_str) ==
  IF dt_str = "" THEN << "", "" >>
  ELSE LET dt == Strptime(Strip(dt_str))
       IN  IF ~dt.ok THEN << "", "" >>
           ELSE << WeekdayNames[Weekday(dt.year, dt.month, dt.day) + 1] \o ", "
                     \o MonthNames[dt.month] \o " " \o IntStr(dt.day),
                   TwoDigits(dt.hour) \o ":" \o TwoDigits(dt.minute) >>

(***************************************************************************)
(* csv.reader(file_content.splitlines()) and csv.DictWriter, excel dialect *)
(***************************************************************************)
IsBreak(text, n) == Char(text, n) \in {"\n", "\r"}

\* the index of the first line break of text, or 0
BreakAt(text) ==
  IF \E n \in 1..Len(text) : IsBreak(text, n)
  THEN CHOOSE n \in 1..Len(text) :
         IsBreak(text, n) /\ \A m \in 1..(n - 1) : ~IsBreak(text, m)
  ELSE 0

\* str.splitlines(): lines without their terminators; \r\n is one terminator
RECURSIVE SplitLines(_)
SplitLines(text) ==
  LET b    == BreakAt(text)
      crlf == Char(text, b) = "\r" /\ Char(text, b + 1) = "\n"
  IN  IF text = "" THEN << >>
      ELSE IF b = 0 THEN << text >>
      ELSE << SubSeq(text, 1, b - 1) >>
             \o SplitLines(SubSeq(text, (IF crlf THEN b + 2 ELSE b + 1), Len(text)))

\* the reader between records
ReaderStart == [state |-> "START_RECORD", field |-> "", fields |-> << >>]

SaveField(st, next) ==
  [state |-> next, field |-> "", fields |-> Append(st.fields, st.field)]

AddChar(st, c, next) == [st EXCEPT !.state = next, !.field = st.field \o c]

\* one character of a line through the reader's state machine
ReaderChar(st, c) ==
  CASE st.state \in {"START_RECORD", "START_FIELD"} ->
         IF c = "\"" THEN [st EXCEPT !.state = "IN_QUOTED_FIELD"]
         ELSE IF c = "," THEN SaveField(st, "START_FIELD")
         ELSE AddChar(st, c, "IN_FIELD")
    [] st.state = "IN_FIELD" ->
         IF c = "," THEN SaveField(st, "START_FIELD") ELSE AddChar(st, c, "IN_FIELD")
    [] st.state = "IN_QUOTED_FIELD" ->
         IF c = "\"" THEN [st EXCEPT !.state = "QUOTE_IN_QUOTED_FIELD"]
         ELSE AddChar(st, c, "IN_QUOTED_FIELD")
    [] st.state = "QUOTE_IN_QUOTED_FIELD" ->
         IF c = "\"" THEN AddChar(st, c, "IN_QUOTED_FIELD")
         ELSE IF c = "," THEN SaveField(st, "START_FIELD")
         ELSE AddChar(st, c, "IN_FIELD")

\* the end of a line: a record ends unless a quoted field is still open
ReaderEol(st) ==
  CASE st.state = "START_RECORD" -> st
    [] st.state = "IN_QUOTED_FIELD" -> st
    [] OTHER -> SaveField(st, "START_RECORD")

\* the characters of s through the reader, in order.  The text is halved and the
\* state after the first half is settled before the second half is read, so that
\* the evaluation nests only to the logarithm of the length.
RECURSIVE ReaderChars(_, _)
ReaderChars(st, s) ==
  IF s = "" THEN st
  ELSE IF Len(s) = 1 THEN ReaderChar(st, s)
  ELSE LET h   == Len(s) \div 2
           mid == ReaderChars(st, SubSeq(s, 1, h))
       IN  IF mid.state = "" THEN mid ELSE ReaderChars(mid, SubSeq(s, h + 1, Len(s)))

ReaderLine(st, line) == ReaderEol(ReaderChars(st, line))

\* list(csv.reader(lines)): the rows read from lines[n..]
RECURSIVE ReadRows(_, _, _)
ReadRows(lines, n, st) ==
  IF n > Len(lines)
  THEN (IF st.state = "IN_QUOTED_FIELD" THEN << Append(st.fields, st.field) >> ELSE << >>)
  ELSE LET after == ReaderLine(st, lines[n])
       IN  IF after.state = "START_RECORD"
           THEN << after.fields >> \o ReadRows(lines, n + 1, ReaderStart)
           ELSE ReadRows(lines, n + 1, after)

csv_reader(file_content) == ReadRows(SplitLines(file_content), 1, ReaderStart)

RECURSIVE DoubleQuotes(_)
DoubleQuotes(s) ==
  IF s = "" THEN ""
  ELSE (IF Head(s) = "\"" THEN "\"\"" ELSE Head(s)) \o DoubleQuotes(Tail(s))

\* QUOTE_MINIMAL: a field is quoted when it holds the delimiter, a quote or a
\* character of the line terminator
NeedsQuotes(s) == \E i \in 1..Len(s) : Char(s, i) \in {",", "\"", "\r", "\n"}

WriteField(s) == IF NeedsQuotes(s) THEN "\"" \o DoubleQuotes(s) \o "\"" ELSE s

RECURSIVE WriteFields(_)
WriteFields(cells) ==
  IF Len(cells) = 0 THEN ""
  ELSE IF Len(cells) = 1 THEN WriteField(cells[1])
  ELSE WriteField(cells[1]) \o "," \o WriteFields(Tail(cells))

\* writer.writerow(cells)
WriteRow(cells) == WriteFields(cells) \o "\r\n"

\* mutant: the output header carries the source's column names
fieldnames_SourceNames ==
  << "Customer", "Vehicle", "VIN", "Mileage", "Appointment Date", "Rate",
     "Phone Numbers", "Year", "Make", "Model", "Last Name", "Time", "Lender", "Payment" >>

fieldnames ==
  << "phone_number", "Customer", "Last Name", "Year", "Make", "Model", "Vin",
     "Miles", "Appointment", "Time", "Rate", "Purchase Date", "Lender", "Payment" >>

\* rowdict.get(key, restval) for key in fieldnames
DictRow(rowdict) ==
  [j \in 1..Len(fieldnames) |->
     IF fieldnames[j] \in DOMAIN rowdict THEN rowdict[fieldnames[j]] ELSE ""]

RECURSIVE WriteRows(_)
WriteRows(rows) ==
  IF rows = << >> THEN "" ELSE WriteRow(DictRow(rows[1])) \o WriteRows(Tail(rows))

\* writer.writeheader(); writer.writerows(output_rows); output.getvalue()
DictWriterText(rows) == WriteRow(fieldnames) \o WriteRows(rows)

(***************************************************************************)
(* convert_content, one step per loop iteration.                           *)
(*                                                                         *)
(* Indices are Python's: header_idx and the values of header_map count     *)
(* from 0, so cell n of a row is row[n + 1] here.                          *)
(***************************************************************************)
VARIABLES
  file_content,   \* the argument of the running call
  pc,             \* where the call is: start, scan, validate, rows, done, failed
  all_rows,       \* list(reader)
  i,              \* the header scan's loop index
  header_idx,     \* -1 until the header row is found
  headers,        \* all_rows[header_idx]
  k,              \* how many data rows the row loop has taken
  rec,            \* the row loop's locals for the row taken last
  seen,           \* the dedup keys accepted so far
  output_rows,    \* the accepted records
  result,         \* what the call returned or raised
  run,            \* 1: the caller's input; 2: the call on the text run 1 returned
  accepted_idx,   \* history: for each output row, the data row it came from
  arg,            \* the argument of a field normalizer called on its own
  ret,            \* what that normalizer returned
  calls           \* convert_content invocations in progress together: the locals of each

vars == << file_content, pc, all_rows, i, header_idx, headers, k, rec, seen,
           output_rows, result, run, accepted_idx, arg, ret, calls >>

\* mutant: VIN is not asked for
required_fields_NoVin ==
  {"Customer", "Vehicle", "Mileage", "Appointment Date", "Rate", "Phone Numbers"}

required_fields ==
  {"Customer", "Vehicle", "VIN", "Mileage", "Appointment Date", "Rate", "Phone Numbers"}

\* mutant: the first cell has to be "Customer" itself
IsHeaderCell_Exact(cell) == cell = "Customer"

\* "Customer" in row[0], for a row with a first cell
IsHeaderCell(cell) == Contains(cell, "Customer")

\* len(row) > 0 and "Customer" in row[0]
IsHeaderRow(row) == Len(row) > 0 /\ IsHeaderCell(row[1])

\* set(headers)
HeaderSet(hs) == {hs[n] : n \in 1..Len(hs)}

\* {h: i for i, h in enumerate(headers)}: a repeated name keeps its last index
header_map(hs) ==
  [h \in HeaderSet(hs) |-> (CHOOSE n \in 1..Len(hs) :
      hs[n] = h /\ \A m \in (n + 1)..Len(hs) : hs[m] # h) - 1]

\* header_map.get(name, default)
MapGet(hs, name, default) ==
  IF name \in HeaderSet(hs) THEN header_map(hs)[name] ELSE default

\* all_rows[header_idx + 1:]
data_rows == SubSeq(all_rows, header_idx + 2, Len(all_rows))

RECURSIVE Blanks(_)
Blanks(n) == IF n <= 0 THEN << >> ELSE << "" >> \o Blanks(n - 1)

\* while len(row) < len(headers): row.append("")
PadRow(row, hs) == row \o Blanks(Len(hs) - Len(row))

\* the names read from each row, with the index .get() falls back to
FieldDefaults ==
  [Customer |-> 0, Vehicle |-> 1, VIN |-> 2, Mileage |-> 3, AppointmentDate |-> 4,
   Rate |-> 5, PL |-> 6, PurchaseDate |-> 7, BankName |-> 8, Payment |-> 9,
   PhoneNumbers |-> 11]

FieldNames ==
  [Customer |-> "Customer", Vehicle |-> "Vehicle", VIN |-> "VIN", Mileage |-> "Mileage",
   AppointmentDate |-> "Appointment Date", Rate |-> "Rate", PL |-> "P/L",
   PurchaseDate |-> "Purchase Date", BankName |-> "Bank Name", Payment |-> "Payment",
   PhoneNumbers |-> "Phone Numbers"]

\* the index of row that local f is read from
FieldIndex(hs, f) == MapGet(hs, FieldNames[f], FieldDefaults[f])

\* row[...] raises IndexError for one of the locals
RowRaises(row, hs) ==
  \E f \in DOMAIN FieldNames : FieldIndex(hs, f) >= Len(PadRow(row, hs))

\* (row[header_map.get(name, default)] or "").strip(), for every local
ExtractRow(row, hs) ==
  [f \in DOMAIN FieldNames |-> Strip(PadRow(row, hs)[FieldIndex(hs, f) + 1])]

NoRec == [f \in DOMAIN FieldNames |-> ""]

\* not vehicle or len(vehicle) < 5
VehicleTooShort(vehicle) == vehicle = "" \/ Len(vehicle) < 5

\* not appointment or not time_24h
NoAppointment(appt) == appt[1] = "" \/ appt[2] = ""

\* dedup_key = (vin, appointment, time_24h)
DedupKey(r) == << r.VIN, parse_datetime(r.AppointmentDate)[1],
                  parse_datetime(r.AppointmentDate)[2] >>

\* mutant: the key alone decides, whatever the vin
IsDuplicate_IgnoringVin(vin, key, seenKeys) == key \in seenKeys

\* vin and dedup_key in seen
IsDuplicate(vin, key, seenKeys) == vin # "" /\ key \in seenKeys

\* the names split_name returns, capitalized
FirstLast(customer) ==
  LET n == split_name(customer)
  IN  << (IF n[1] # "" THEN Capitalize(n[1]) ELSE ""),
         (IF n[2] # "" THEN Capitalize(n[2]) ELSE "") >>

\* lender = bank_name if bank_name else p_l
Lender(bank_name, p_l) == IF bank_name # "" THEN bank_name ELSE p_l

\* the dict appended to output_rows
OutputRecord(r) ==
  LET name == FirstLast(r.Customer)
      veh  == parse_vehicle(r.Vehicle)
      appt == parse_datetime(r.AppointmentDate)
  IN  ("phone_number" :> normalize_phone(r.PhoneNumbers)) @@ ("Customer" :> name[1])
      @@ ("Last Name" :> name[2]) @@ ("Year" :> veh[1]) @@ ("Make" :> veh[2])
      @@ ("Model" :> veh[3]) @@ ("Vin" :> r.VIN) @@ ("Miles" :> r.Mileage)
      @@ ("Appointment" :> appt[1]) @@ ("Time" :> appt[2]) @@ ("Rate" :> r.Rate)
      @@ ("Purchase Date" :> r.PurchaseDate) @@ ("Lender" :> Lender(r.BankName, r.PL))
      @@ ("Payment" :> r.Payment)

\* mutant: the record goes to the front
AppendOutput_Front(rows, record) == << record >> \o rows

\* output_rows.append(record)
AppendOutput(rows, record) == Append(rows, record)

NoResult == [kind |-> "none", msg |-> "", missing |-> {}, text |-> "", count |-> 0]

Raised(kind, msg, missing) ==
  [kind |-> kind, msg |-> msg, missing |-> missing, text |-> "", count |-> 0]

Returned(text, count) ==
  [kind |-> "ok", msg |-> "", missing |-> {}, text |-> text, count |-> count]

(***************************************************************************)
(* The inputs: every file of at most MaxLines lines drawn from Lines.      *)
(***************************************************************************)
MaxLines == 3

HdrFull ==
  "Customer,Vehicle,VIN,Mileage,Appointment Date,Rate,P/L,Purchase Date,Bank Name,Payment,Advisor,Phone Numbers"

HdrRequired == "Customer,Vehicle,VIN,Mileage,Appointment Date,Rate,Phone Numbers"

\* HdrFull with Mileage and Rate, and P/L and Bank Name, changing places
HdrSwapped ==
  "Customer,Vehicle,VIN,Rate,Appointment Date,Mileage,Bank Name,Purchase Date,P/L,Payment,Advisor,Phone Numbers"

\* every required name but VIN; the first cell holds "Customer" without being it
HdrNoVin == "Customer Name,Customer,Vehicle,Mileage,Appointment Date,Rate,Phone Numbers"

Preamble == "\"Appointments, Next Day\",2025"

RowA ==
  " john mcDonald ,2021 Toyota Camry,V1,10,12/19/2025 09:30:00 AM,1.5,P,01/02/2020,Ally,300,Sam,H: 2 C: (813) 326-9813"

\* a short row with RowA's VIN and appointment
RowB == "MARY,2019 Ford,V1,20,12/19/2025 09:30:00 AM"

\* no VIN, RowA's appointment, a vehicle that does not decompose
RowC == "bob lee,Truck 4x4,,5,12/19/2025 09:30:00 AM,2.0,L,,,,,W: 5"

\* a vehicle under five characters
RowD == "al,abc,V2,7,12/20/2025 01:00:00 PM,1.0,,,,,,"

\* an appointment date that does not parse
RowE == "sue,2020 Honda Fit,V3,7,tomorrow,1.0,,,,,,B: 7"

Lines ==
  {HdrFull, HdrRequired, HdrSwapped, HdrNoVin, Preamble, RowA, RowB, RowC, RowD, RowE, ""}

Files == UNION {[1..n -> Lines] : n \in 0..MaxLines}

InputTexts == {Join(f, "\n") : f \in Files}

(***************************************************************************)
(* The state machine of one convert_content call, and of the call on its   *)
(* own output.                                                             *)
(***************************************************************************)
Idle == arg = "" /\ ret = << >> /\ calls = << >>

Init ==
  /\ file_content \in InputTexts
  /\ pc = "start"
  /\ all_rows = << >>
  /\ i = 0
  /\ header_idx = -1
  /\ headers = << >>
  /\ k = 0
  /\ rec = NoRec
  /\ seen = {}
  /\ output_rows = << >>
  /\ result = NoResult
  /\ run = 1
  /\ accepted_idx = << >>
  /\ Idle

\* reader = csv.reader(file_content.splitlines()); all_rows = list(reader)
ReadAll ==
  /\ pc = "start"
  /\ all_rows' = csv_reader(file_content)
  /\ pc' = "scan"
  /\ UNCHANGED << file_content, i, header_idx, headers, k, rec, seen, output_rows,
                  result, run, accepted_idx, arg, ret, calls >>

\* the header scan passes over a row that is not the header
ScanSkip ==
  /\ pc = "scan"
  /\ i < Len(all_rows)
  /\ ~IsHeaderRow(all_rows[i + 1])
  /\ i' = i + 1
  /\ UNCHANGED << file_content, pc, all_rows, header_idx, headers, k, rec, seen,
                  output_rows, result, run, accepted_idx, arg, ret, calls >>

\* header_idx = i; break; headers = all_rows[header_idx]
ScanFound ==
  /\ pc = "scan"
  /\ i < Len(all_rows)
  /\ IsHeaderRow(all_rows[i + 1])
  /\ header_idx' = i
  /\ headers' = all_rows[i + 1]
  /\ pc' = "validate"
  /\ UNCHANGED << file_content, all_rows, i, k, rec, seen, output_rows, result, run,
                  accepted_idx, arg, ret, calls >>

\* raise ValueError("Could not find CSV header row")
HeaderNotFound ==
  /\ pc = "scan"
  /\ i = Len(all_rows)
  /\ result' = Raised("ValueError", "Could not find CSV header row", {})
  /\ pc' = "failed"
  /\ UNCHANGED << file_content, all_rows, i, header_idx, headers, k, rec, seen,
                  output_rows, run, accepted_idx, arg, ret, calls >>

\* raise ValueError(f"Missing required headers: {missing}")
MissingHeaders ==
  /\ pc = "validate"
  /\ ~(required_fields \subseteq HeaderSet(headers))
  /\ result' = Raised("ValueError", "Missing required headers",
                      required_fields \ HeaderSet(headers))
  /\ pc' = "failed"
  /\ UNCHANGED << file_content, all_rows, i, header_idx, headers, k, rec, seen,
                  output_rows, run, accepted_idx, arg, ret, calls >>

\* seen = set(); output_rows = []
HeadersOk ==
  /\ pc = "validate"
  /\ required_fields \subseteq HeaderSet(headers)
  /\ seen' = {}
  /\ output_rows' = << >>
  /\ pc' = "rows"
  /\ UNCHANGED << file_content, all_rows, i, header_idx, headers, k, rec, result, run,
                  accepted_idx, arg, ret, calls >>

\* the row the loop takes next
NextRow == data_rows[k + 1]

\* row[...] with an index past the padded row: IndexError leaves the call
RowIndexError ==
  /\ pc = "rows"
  /\ k < Len(data_rows)
  /\ RowRaises(NextRow, headers)
  /\ result' = Raised("IndexError", "list index out of range", {})
  /\ pc' = "failed"
  /\ UNCHANGED << file_content, all_rows, i, header_idx, headers, k, rec, seen,
                  output_rows, run, accepted_idx, arg, ret, calls >>

\* if not vehicle or len(vehicle) < 5: continue
DropVehicle ==
  /\ pc = "rows"
  /\ k < Len(data_rows)
  /\ ~RowRaises(NextRow, headers)
  /\ VehicleTooShort(ExtractRow(NextRow, headers).Vehicle)
  /\ rec' = ExtractRow(NextRow, headers)
  /\ k' = k + 1
  /\ UNCHANGED << file_content, pc, all_rows, i, header_idx, headers, seen, output_rows,
                  result, run, accepted_idx, arg, ret, calls >>

\* if not appointment or not time_24h: continue
DropDatetime ==
  /\ pc = "rows"
  /\ k < Len(data_rows)
  /\ ~RowRaises(NextRow, headers)
  /\ ~VehicleTooShort(ExtractRow(NextRow, headers).Vehicle)
  /\ NoAppointment(parse_datetime(ExtractRow(NextRow, headers).AppointmentDate))
  /\ rec' = ExtractRow(NextRow, headers)
  /\ k' = k + 1
  /\ UNCHANGED << file_content, pc, all_rows, i, header_idx, headers, seen, output_rows,
                  result, run, accepted_idx, arg, ret, calls >>

\* if vin and dedup_key in seen: continue
DropDuplicate ==
  /\ pc = "rows"
  /\ k < Len(data_rows)
  /\ ~RowRaises(NextRow, headers)
  /\ LET r == ExtractRow(NextRow, headers)
     IN  /\ ~VehicleTooShort(r.Vehicle)
         /\ ~NoAppointment(parse_datetime(r.AppointmentDate))
         /\ IsDuplicate(r.VIN, DedupKey(r), seen)
         /\ rec' = r
  /\ k' = k + 1
  /\ UNCHANGED << file_content, pc, all_rows, i, header_idx, headers, seen, output_rows,
                  result, run, accepted_idx, arg, ret, calls >>

\* seen.add(dedup_key); output_rows.append({...})
AcceptRow ==
  /\ pc = "rows"
  /\ k < Len(data_rows)
  /\ ~RowRaises(NextRow, headers)
  /\ LET r == ExtractRow(NextRow, headers)
     IN  /\ ~VehicleTooShort(r.Vehicle)
         /\ ~NoAppointment(parse_datetime(r.AppointmentDate))
         /\ ~IsDuplicate(r.VIN, DedupKey(r), seen)
         /\ rec' = r
         /\ seen' = seen \cup {DedupKey(r)}
         /\ output_rows' = AppendOutput(output_rows, OutputRecord(r))
  /\ accepted_idx' = Append(accepted_idx, k + 1)
  /\ k' = k + 1
  /\ UNCHANGED << file_content, pc, all_rows, i, header_idx, headers, result, run,
                  arg, ret, calls >>

\* return output.getvalue(), len(output_rows)
WriteOutput ==
  /\ pc = "rows"
  /\ k = Len(data_rows)
  /\ result' = Returned(DictWriterText(output_rows), Len(output_rows))
  /\ pc' = "done"
  /\ UNCHANGED << file_content, all_rows, i, header_idx, headers, k, rec, seen,
                  output_rows, run, accepted_idx, arg, ret, calls >>

\* convert_content(text), text being what the first call returned
Reconvert ==
  /\ pc = "done"
  /\ run = 1
  /\ file_content' = result.text
  /\ run' = 2
  /\ pc' = "start"
  /\ all_rows' = << >>
  /\ i' = 0
  /\ header_idx' = -1
  /\ headers' = << >>
  /\ k' = 0
  /\ rec' = NoRec
  /\ seen' = {}
  /\ output_rows' = << >>
  /\ result' = NoResult
  /\ accepted_idx' = << >>
  /\ UNCHANGED << arg, ret, calls >>

Next ==
  \/ ReadAll
  \/ ScanSkip
  \/ ScanFound
  \/ HeaderNotFound
  \/ MissingHeaders
  \/ HeadersOk
  \/ RowIndexError
  \/ DropVehicle
  \/ DropDatetime
  \/ DropDuplicate
  \/ AcceptRow
  \/ WriteOutput
  \/ Reconvert

Spec == Init /\ [][Next]_vars

(***************************************************************************)
(* The field normalizers called on their own: Init draws the argument, the *)
(* one action is the call.                                                 *)
(***************************************************************************)
NoCall ==
  /\ file_content = ""
  /\ all_rows = << >>
  /\ i = 0
  /\ header_idx = -1
  /\ headers = << >>
  /\ k = 0
  /\ rec = NoRec
  /\ seen = {}
  /\ output_rows = << >>
  /\ result = NoResult
  /\ run = 1
  /\ accepted_idx = << >>
  /\ calls = << >>

pipeline == << file_content, all_rows, i, header_idx, headers, k, rec, seen,
               output_rows, result, run, accepted_idx, calls >>

\* every text of at most n pieces drawn from pieces
RECURSIVE Texts(_, _)
Texts(pieces, n) ==
  IF n = 0 THEN {""}
  ELSE LET shorter == Texts(pieces, n - 1)
       IN  shorter \cup {t \o c : t \in shorter, c \in pieces}

MaxPhonePieces == 4

PhonePieces == {"C:", "H:", "W:", "B:", "1", "2", " ", "-", "x"}

InitPhone ==
  /\ arg \in Texts(PhonePieces, MaxPhonePieces)
  /\ ret = << >>
  /\ pc = "call"
  /\ NoCall

\* phone = normalize_phone(arg)
CallNormalizePhone ==
  /\ pc = "call"
  /\ ret' = << normalize_phone(arg) >>
  /\ pc' = "returned"
  /\ UNCHANGED << arg, pipeline >>

SpecPhone == InitPhone /\ [][CallNormalizePhone]_vars

MaxNameLen == 5

NameChars == {"a", "b", "C", "D", " "}

InitName ==
  /\ arg \in Texts(NameChars, MaxNameLen)
  /\ ret = << >>
  /\ pc = "call"
  /\ NoCall

\* customer = cell.strip(); first, last = split_name(customer); the two capitalize()
CallSplitName ==
  /\ pc = "call"
  /\ ret' = FirstLast(Strip(arg))
  /\ pc' = "returned"
  /\ UNCHANGED << arg, pipeline >>

SpecName == InitName /\ [][CallSplitName]_vars

\* the blanks between two fields: at most MaxBlanks of them
MaxBlanks == 2

MonthTexts == {"02", "2", "12", "13"}

DayTexts == {"01", "9", " 9", "29", "31"}

YearTexts == {"2024", "2025", "1900"}

HourTexts == {"12", "09", "9", "13"}

MinuteTexts == {"30", "5", "60"}

SecondTexts == {"07", "60"}

MeridiemTexts == {" AM", " PM", " pm", "\tam", "AM", " XM"}

AfterTexts == {"", " ", "x"}

DatetimeTexts ==
  {mo \o "/" \o d \o "/" \o y \o b \o h \o ":" \o mi \o ":" \o se \o p \o z :
     mo \in MonthTexts, d \in DayTexts, y \in YearTexts, b \in Texts({" "}, MaxBlanks),
     h \in HourTexts, mi \in MinuteTexts, se \in SecondTexts, p \in MeridiemTexts,
     z \in AfterTexts}

InitDatetime ==
  /\ arg \in DatetimeTexts
  /\ ret = << >>
  /\ pc = "call"
  /\ NoCall

\* appointment, time_24h = parse_datetime(arg)
CallParseDatetime ==
  /\ pc = "call"
  /\ ret' = parse_datetime(arg)
  /\ pc' = "returned"
  /\ UNCHANGED << arg, pipeline >>

SpecDatetime == InitDatetime /\ [][CallParseDatetime]_vars

MaxVehiclePieces == 6

VehiclePieces == {"201", "1", "T", " ", "Ab"}

InitVehicle ==
  /\ arg \in Texts(VehiclePieces, MaxVehiclePieces)
  /\ ret = << >>
  /\ pc = "call"
  /\ NoCall

\* year, make, model = parse_vehicle(arg)
CallParseVehicle ==
  /\ pc = "call"
  /\ ret' = parse_vehicle(arg)
  /\ pc' = "returned"
  /\ UNCHANGED << arg, pipeline >>

SpecVehicle == InitVehicle /\ [][CallParseVehicle]_vars

MaxAnyPieces == 4

AnyPieces == {" ", "\t", "ab", "C:1", "2021", "12/19/2025 09:30:00", "AM", "x"}

InitNormalizers ==
  /\ arg \in Texts(AnyPieces, MaxAnyPieces)
  /\ ret = << >>
  /\ pc = "call"
  /\ NoCall

\* first, last = split_name(arg), the argument as it is
CallSplitNameRaw ==
  /\ pc = "call"
  /\ ret' = split_name(arg)
  /\ pc' = "returned"
  /\ UNCHANGED << arg, pipeline >>

\* any one of the four normalizers is called on the argument
NextNormalizers ==
  \/ CallNormalizePhone
  \/ CallSplitNameRaw
  \/ CallParseVehicle
  \/ CallParseDatetime

SpecNormalizers == InitNormalizers /\ [][NextNormalizers]_vars

(***************************************************************************)
(* Several convert_content invocations in progress together, as the web    *)
(* endpoint runs one per request.  Each has its own locals, calls[id]; a   *)
(* step of the system is the next step of one of them.                     *)
(***************************************************************************)
MaxCalls == 2

CallTexts ==
  {Join(<< HdrFull, RowA, RowB >>, "\n"),
   Join(<< HdrFull, RowB >>, "\n"),
   Join(<< HdrFull, RowC, RowD >>, "\n"),
   Join(<< Preamble, HdrRequired, RowB >>, "\n"),
   RowA}

\* the locals of an invocation at its entry
StartCall(text) ==
  [file_content |-> text, pc |-> "start", all_rows |-> << >>, i |-> 0, header_idx |-> -1,
   headers |-> << >>, k |-> 0, seen |-> {}, output_rows |-> << >>, result |-> NoResult]

\* mutant: one seen set for the whole process
SeenSet_Shared(all, id) == UNION {all[other].seen : other \in DOMAIN all}

\* seen = set() is a local of the invocation
SeenSet(all, id) == all[id].seen

\* the locals of invocation id after its next step
CallStep(all, id) ==
  LET c    == all[id]
      rows == SubSeq(c.all_rows, c.header_idx + 2, Len(c.all_rows))
      row  == rows[c.k + 1]
      r    == ExtractRow(row, c.headers)
  IN  CASE c.pc = "start" ->
             [c EXCEPT !.all_rows = csv_reader(c.file_content), !.pc = "scan"]
        [] c.pc = "scan" /\ c.i = Len(c.all_rows) ->
             [c EXCEPT !.result = Raised("ValueError", "Could not find CSV header row", {}),
                       !.pc = "failed"]
        [] c.pc = "scan" /\ c.i < Len(c.all_rows) ->
             IF IsHeaderRow(c.all_rows[c.i + 1])
             THEN [c EXCEPT !.header_idx = c.i, !.headers = c.all_rows[c.i + 1],
                            !.pc = "validate"]
             ELSE [c EXCEPT !.i = c.i + 1]
        [] c.pc = "validate" ->
             IF required_fields \subseteq HeaderSet(c.headers)
             THEN [c EXCEPT !.seen = {}, !.output_rows = << >>, !.pc = "rows"]
             ELSE [c EXCEPT !.result = Raised("ValueError", "Missing required headers",
                                             required_fields \ HeaderSet(c.headers)),
                            !.pc = "failed"]
        [] c.pc = "rows" /\ c.k = Len(rows) ->
             [c EXCEPT !.result = Returned(DictWriterText(c.output_rows), Len(c.output_rows)),
                       !.pc = "done"]
        [] c.pc = "rows" /\ c.k < Len(rows) ->
             IF RowRaises(row, c.headers)
             THEN [c EXCEPT !.result = Raised("IndexError", "list index out of range", {}),
                            !.pc = "failed"]
             ELSE IF \/ VehicleTooShort(r.Vehicle)
                     \/ NoAppointment(parse_datetime(r.AppointmentDate))
                     \/ IsDuplicate(r.VIN, DedupKey(r), SeenSet(all, id))
             THEN [c EXCEPT !.k = c.k + 1]
             ELSE [c EXCEPT !.k = c.k + 1,
                            !.seen = c.seen \cup {DedupKey(r)},
                            !.output_rows = AppendOutput(c.output_rows, OutputRecord(r))]

Ended(c) == c.pc \in {"done", "failed"}

InitCalls ==
  /\ calls \in [1..MaxCalls -> {StartCall(text) : text \in CallTexts}]
  /\ pc = "serving"
  /\ arg = ""
  /\ ret = << >>
  /\ file_content = ""
  /\ all_rows = << >>
  /\ i = 0
  /\ header_idx = -1
  /\ headers = << >>
  /\ k = 0
  /\ rec = NoRec
  /\ seen = {}
  /\ output_rows = << >>
  /\ result = NoResult
  /\ run = 1
  /\ accepted_idx = << >>

\* the invocation id takes its next step
StepCall(id) ==
  /\ ~Ended(calls[id])
  /\ calls' = [calls EXCEPT ![id] = CallStep(calls, id)]
  /\ UNCHANGED << file_content, pc, all_rows, i, header_idx, headers, k, rec, seen,
                  output_rows, result, run, accepted_idx, arg, ret >>

NextCalls == \E id \in 1..MaxCalls : StepCall(id)

SpecCalls == InitCalls /\ [][NextCalls]_vars

(***************************************************************************)
(* The claims.  What a claim says is written here from the claim's own     *)
(* words, with its own lists of names, and compared with what the state    *)
(* machine above did.                                                      *)
(***************************************************************************)
Terminal == pc \in {"done", "failed"}

ClaimRequired ==
  {"Customer", "Vehicle", "VIN", "Mileage", "Appointment Date", "Rate", "Phone Numbers"}

ClaimOutputHeader ==
  << "phone_number", "Customer", "Last Name", "Year", "Make", "Model", "Vin",
     "Miles", "Appointment", "Time", "Rate", "Purchase Date", "Lender", "Payment" >>

HeaderLocated == header_idx # -1

\* the rows of all_rows (counted from 1) whose first cell contains "Customer"
QualifyingRows ==
  {n \in 1..Len(all_rows) : Len(all_rows[n]) > 0 /\ Contains(all_rows[n][1], "Customer")}

Range(f) == {f[n] : n \in DOMAIN f}

\* the cell of row under the header's column called name, trimmed; empty when
\* the header has no such column or the row ends before it
ClaimCell(row, hs, name) ==
  IF \A n \in 1..Len(hs) : hs[n] # name THEN ""
  ELSE LET col == CHOOSE n \in 1..Len(hs) :
                    hs[n] = name /\ \A m \in (n + 1)..Len(hs) : hs[m] # name
       IN  IF col > Len(row) THEN "" ELSE Strip(row[col])

\* C1: every call ends by returning or with a ValueError (the structural error);
\* nothing in a data row makes it fail otherwise.
C1_OnlyStructuralErrors == pc = "failed" => result.kind = "ValueError"

\* C2: each local read from a data row is the trimmed cell under the header's
\* column of that name, and empty when the row is short of that column or the
\* header has no such column.
C2_ExtractedByHeaderName ==
  (pc \in {"rows", "done"} /\ k >= 1) =>
     \A f \in DOMAIN FieldNames : rec[f] = ClaimCell(data_rows[k], headers, FieldNames[f])

\* data row n passed the vehicle and the datetime filters
ClaimPasses(n) ==
  LET r == ExtractRow(data_rows[n], headers)
  IN  /\ Len(r.Vehicle) >= 5
      /\ parse_datetime(r.AppointmentDate)[1] # ""
      /\ parse_datetime(r.AppointmentDate)[2] # ""

ClaimVin(n) == ExtractRow(data_rows[n], headers).VIN

ClaimKey(n) ==
  << ClaimVin(n), parse_datetime(ExtractRow(data_rows[n], headers).AppointmentDate) >>

OutputKey(j) ==
  << output_rows[j]["Vin"], << output_rows[j]["Appointment"], output_rows[j]["Time"] >> >>

\* C3: no two output rows with a non-empty Vin share (Vin, Appointment, Time); of
\* the rows with one such key the first is emitted and only it; a row without a
\* Vin is never dropped as a duplicate.
C3_Dedup ==
  /\ Len(accepted_idx) = Len(output_rows)
  /\ \A j \in 1..Len(output_rows) : OutputKey(j) = ClaimKey(accepted_idx[j])
  /\ \A a, b \in 1..Len(output_rows) :
       (a < b /\ output_rows[a]["Vin"] # "") => OutputKey(a) # OutputKey(b)
  /\ \A n \in 1..k :
       (ClaimPasses(n) /\ ClaimVin(n) # "") =>
          (n \in Range(accepted_idx)
             <=> ~\E m \in 1..(n - 1) : ClaimPasses(m) /\ ClaimKey(m) = ClaimKey(n))
  /\ \A n \in 1..k : (ClaimPasses(n) /\ ClaimVin(n) = "") => n \in Range(accepted_idx)

\* a row was dropped because an earlier row had its Vin, Appointment and Time
C3_Witness ==
  /\ pc = "done"
  /\ \E n \in 1..k : ClaimPasses(n) /\ n \notin Range(accepted_idx)

\* C4: a header short of a required name ends the call with the ValueError that
\* names exactly the missing names, before any data row is taken and with no output.
C4_MissingHeaders ==
  (HeaderLocated /\ ~(ClaimRequired \subseteq HeaderSet(headers))) =>
     /\ pc \in {"validate", "failed"}
     /\ k = 0 /\ rec = NoRec /\ output_rows = << >> /\ seen = {}
     /\ pc = "failed" =>
          /\ result.kind = "ValueError"
          /\ result.msg = "Missing required headers"
          /\ result.missing = ClaimRequired \ HeaderSet(headers)
          /\ result.text = "" /\ result.count = 0

\* the call failed for a missing name although rows of data followed the header
C4_Witness ==
  /\ pc = "failed"
  /\ "VIN" \in result.missing
  /\ Len(data_rows) > 0

\* C5: the header is the first row whose first cell contains "Customer"; the rows
\* after it are all taken as data; without such a row the call fails with
\* "header not found" and no output.
C5_HeaderLocator ==
  /\ HeaderLocated =>
       /\ QualifyingRows # {}
       /\ \A n \in QualifyingRows : header_idx + 1 <= n
       /\ header_idx + 1 \in QualifyingRows
       /\ headers = all_rows[header_idx + 1]
  /\ (Terminal /\ QualifyingRows # {}) => HeaderLocated
  /\ (Terminal /\ QualifyingRows = {}) =>
       /\ pc = "failed"
       /\ result.kind = "ValueError"
       /\ result.msg = "Could not find CSV header row"
       /\ result.text = "" /\ result.count = 0
  /\ pc = "done" => k = Len(all_rows) - (header_idx + 1)

\* the call ran to its end with a second qualifying row after the header, taken
\* as data, and rows before the header
C5_Witness ==
  /\ pc = "done"
  /\ run = 1
  /\ header_idx >= 1
  /\ Cardinality(QualifyingRows) >= 2

\* C6: a header with all the required names, in any column order, makes the call
\* succeed with the fixed fourteen-field header.
C6_AnyColumnOrder ==
  (Terminal /\ HeaderLocated /\ ClaimRequired \subseteq HeaderSet(headers)) =>
     /\ result.kind = "ok"
     /\ csv_reader(result.text)[1] = ClaimOutputHeader

\* C7: the call on the text a successful call returned fails with a ValueError.
C7_OwnOutputRejected ==
  run = 2 =>
     /\ pc \in {"start", "scan", "validate", "failed"}
     /\ pc = "failed" => result.kind = "ValueError"

\* the second call failed on a text that holds a data row
C7_Witness ==
  /\ run = 2
  /\ pc = "failed"
  /\ Len(all_rows) >= 2

StrictlyIncreasing(f) == \A a, b \in 1..Len(f) : a < b => f[a] < f[b]

\* C8: the output rows are, in source order, the records of the accepted data
\* rows, and the count returned is the number of data rows in the text returned.
C8_OrderAndCount ==
  /\ Len(output_rows) = Len(accepted_idx)
  /\ StrictlyIncreasing(accepted_idx)
  /\ \A j \in 1..Len(output_rows) :
       /\ accepted_idx[j] \in 1..k
       /\ output_rows[j] = OutputRecord(ExtractRow(data_rows[accepted_idx[j]], headers))
  /\ pc = "done" =>
       LET written == csv_reader(result.text)
       IN  /\ result.count = Len(output_rows)
           /\ Len(written) = result.count + 1
           /\ written[1] = ClaimOutputHeader
           /\ \A j \in 1..result.count :
                written[j + 1] = [c \in 1..14 |-> output_rows[j][ClaimOutputHeader[c]]]

\* two different rows were accepted and written
C8_Witness ==
  /\ pc = "done"
  /\ result.count = 2
  /\ output_rows[1] # output_rows[2]

ClaimPriority == << "C", "H", "W", "B" >>

\* the places where label, a colon and a character of the number class follow
\* one another in raw
LabelMatches(raw, label) ==
  {p \in 1..(Len(raw) - 2) :
     /\ Char(raw, p) = label
     /\ Char(raw, p + 1) = ":"
     /\ IsPhoneChar(Char(raw, p + 2))}

\* the digits of the run of number characters after the label at p
MatchDigits(raw, p) ==
  LET e == CHOOSE n \in (p + 2)..Len(raw) :
             /\ \A m \in (p + 2)..n : IsPhoneChar(Char(raw, m))
             /\ n = Len(raw) \/ ~IsPhoneChar(Char(raw, n + 1))
  IN  OnlyDigits(SubSeq(raw, p + 2, e))

\* the matches of label that hold a digit
DigitMatches(raw, label) == {p \in LabelMatches(raw, label) : MatchDigits(raw, p) # ""}

SetMax(S) == CHOOSE x \in S : \A y \in S : y <= x

\* the digits of the last match of the first label, in priority order, that
\* matches[label] is not empty for; "" when it is empty for all four
ByPriority(raw, matches) ==
  IF \A n \in 1..4 : matches[ClaimPriority[n]] = {} THEN ""
  ELSE LET best == CHOOSE n \in 1..4 :
                     /\ matches[ClaimPriority[n]] # {}
                     /\ \A m \in 1..(n - 1) : matches[ClaimPriority[m]] = {}
       IN  MatchDigits(raw, SetMax(matches[ClaimPriority[best]]))

\* C9 as claimed: normalize_phone returns the digits of the last match of the
\* highest-priority label that is matched at all, and "" when none is.
C9_HighestMatchedLabel ==
  pc = "returned" => ret[1] = ByPriority(arg, [l \in PhoneLabels |-> LabelMatches(arg, l)])

\* C9 as amended: normalize_phone returns the digits of the last digit-bearing
\* match of the highest-priority label that has a match with a digit in it, and
\* "" when no match holds a digit.
C9_HighestLabelWithDigits ==
  pc = "returned" => ret[1] = ByPriority(arg, [l \in PhoneLabels |-> DigitMatches(arg, l)])

\* C: is matched without a digit and the number of a lower label is returned
C9_Witness ==
  /\ pc = "returned"
  /\ LabelMatches(arg, "C") # {}
  /\ DigitMatches(arg, "C") = {}
  /\ ret[1] # ""

\* the word with its leading character capitalized and the rest as it was
ClaimCapWord(w) == UpperChar(Head(w)) \o Tail(w)

ClaimCapWords(ws) == [n \in 1..Len(ws) |-> ClaimCapWord(ws[n])]

\* out is s with its first character upper-cased and the others lower-cased
IsCapitalized(out, s) ==
  /\ Len(out) = Len(s)
  /\ \A n \in 1..Len(s) :
       Char(out, n) = IF n = 1 THEN UpperChar(Char(s, n)) ELSE LowerChar(Char(s, n))

\* C10 as claimed: one token gives that token and no last name, more give all
\* but the last joined by single spaces and the last; every word with its
\* leading character capitalized and its other letters as in the input.
C10_WordsCapitalizedRestKept ==
  pc = "returned" =>
     LET ws == Split(Strip(arg))
         n  == Len(ws)
     IN  ret = IF n = 0 THEN << "", "" >>
               ELSE IF n = 1 THEN << ClaimCapWord(ws[1]), "" >>
               ELSE << Join(ClaimCapWords(SubSeq(ws, 1, n - 1)), " "), ClaimCapWord(ws[n]) >>

\* C10 as amended: the same split, each of the two fields as a whole with its
\* first character upper-cased and every other letter lower-cased.
C10_FieldsCapitalizedRestLowered ==
  pc = "returned" =>
     LET ws == Split(Strip(arg))
         n  == Len(ws)
     IN  /\ Len(ret) = 2
         /\ n = 0 => ret = << "", "" >>
         /\ n = 1 => IsCapitalized(ret[1], ws[1]) /\ ret[2] = ""
         /\ n > 1 => /\ IsCapitalized(ret[1], Join(SubSeq(ws, 1, n - 1), " "))
                     /\ IsCapitalized(ret[2], ws[n])

\* a name of several words whose last name lost a capital inside it
C10_Witness ==
  /\ pc = "returned"
  /\ Len(Split(Strip(arg))) >= 2
  /\ ret[2] # ClaimCapWord(Split(Strip(arg))[Len(Split(Strip(arg)))])

\* exactly MM/DD/YYYY hh:mm:ss AM|PM, every field at its full width
StrictForm(s) ==
  /\ Len(s) = 22
  /\ \A n \in {1, 2, 4, 5, 7, 8, 9, 10, 12, 13, 15, 16, 18, 19} : IsDigit(Char(s, n))
  /\ \A n \in {3, 6} : Char(s, n) = "/"
  /\ \A n \in {14, 17} : Char(s, n) = ":"
  /\ \A n \in {11, 20} : Char(s, n) = " "
  /\ SubSeq(s, 21, 22) \in {"AM", "PM"}

ClaimStr(n) ==
  IF n < 10 THEN Char("0123456789", n + 1)
  ELSE Char("0123456789", (n \div 10) + 1) \o Char("0123456789", (n % 10) + 1)

ClaimPad(n) == IF n < 10 THEN "0" \o ClaimStr(n) ELSE ClaimStr(n)

\* the ways to write n: as it is, with a leading zero, and (a day only) with a
\* leading blank
ClaimSpellings(n, blank) ==
  {ClaimStr(n), ClaimPad(n)} \cup (IF blank /\ n < 10 THEN {" " \o ClaimStr(n)} ELSE {})

StartsWith(s, t) == SubSeq(s, 1, Len(t)) = t

After(s, t) == SubSeq(s, Len(t) + 1, Len(s))

\* S is a set of pairs <<fields read so far, text still to read>>; each pair
\* goes on with every number of lo..hi that the text starts with a spelling of,
\* followed by sep
NumStep(S, lo, hi, blank, sep) ==
  UNION {UNION {{<< Append(p[1], n), After(p[2], t \o sep) >> :
                   t \in {u \in ClaimSpellings(n, blank) : StartsWith(p[2], u \o sep)}} :
                n \in lo..hi} :
         p \in S}

\* four digits, read as the year
YearStep(S) ==
  {<< Append(p[1], 1000 * DigitValue(Char(p[2], 1)) + 100 * DigitValue(Char(p[2], 2))
                     + 10 * DigitValue(Char(p[2], 3)) + DigitValue(Char(p[2], 4))),
      SubSeq(p[2], 5, Len(p[2])) >> :
     p \in {q \in S : Len(q[2]) >= 4 /\ \A n \in 1..4 : IsDigit(Char(q[2], n))}}

\* one or more blanks
BlankStep(S) == {<< p[1], LStrip(p[2]) >> : p \in {q \in S : q[2] # LStrip(q[2])}}

\* the readings <<month, day, year, hour, minute, second, am|pm>> of s as
\* month/day/year hour:minute:second AM|PM with the leading zeros optional
ClaimReadings(s) ==
  LET S1 == NumStep({<< << >>, s >>}, 1, 12, FALSE, "/")
      S2 == NumStep(S1, 1, 31, TRUE, "/")
      S3 == BlankStep(YearStep(S2))
      S4 == NumStep(S3, 1, 12, FALSE, ":")
      S5 == NumStep(S4, 0, 59, FALSE, ":")
      S6 == BlankStep(NumStep(S5, 0, 59, FALSE, ""))
  IN  {Append(p[1], LowerStr(p[2])) : p \in {q \in S6 : LowerStr(q[2]) \in {"am", "pm"}}}

ClaimMonthDays(y, m) ==
  IF m = 2 /\ (y % 400 = 0 \/ (y % 4 = 0 /\ y % 100 # 0)) THEN 29
  ELSE << 31, 28, 31, 30, 31, 30, 31, 31, 30, 31, 30, 31 >>[m]

\* a reading that is a date of the calendar
ClaimRealDate(f) == f[3] >= 1 /\ f[2] <= ClaimMonthDays(f[3], f[1])

EmptyPair == << "", "" >>

\* C11 as claimed: parse_datetime returns the empty pair for every string that,
\* trimmed, is not exactly MM/DD/YYYY hh:mm:ss AM|PM with every field zero-padded.
C11_OnlyPaddedFormAccepted ==
  pc = "returned" /\ ~StrictForm(Strip(arg)) => ret = EmptyPair

\* C11 as amended: parse_datetime returns the empty pair exactly for the strings
\* that, trimmed, have no reading as month/day/year hour:minute:second AM|PM
\* (leading zeros optional, one or more blanks before the hour and before AM|PM,
\* AM|PM in either case) that is a date of the calendar.
C11_LenientFormAccepted ==
  pc = "returned" =>
     (ret = EmptyPair <=> ~\E f \in ClaimReadings(Strip(arg)) : ClaimRealDate(f))

\* a date-time with a month, day or hour of one digit is accepted
C11_Witness ==
  /\ pc = "returned"
  /\ ~StrictForm(Strip(arg))
  /\ Len(Strip(arg)) < 22
  /\ ret # EmptyPair

\* Zeller's congruence: 0 for Saturday
ClaimZeller(y, m, d) ==
  LET mm == IF m < 3 THEN m + 12 ELSE m
      yy == IF m < 3 THEN y - 1 ELSE y
  IN  (d + ((13 * (mm + 1)) \div 5) + (yy % 100) + ((yy % 100) \div 4)
         + ((yy \div 100) \div 4) + 5 * (yy \div 100)) % 7

ClaimWeekdayNames ==
  << "Saturday", "Sunday", "Monday", "Tuesday", "Wednesday", "Thursday", "Friday" >>

ClaimMonthNames ==
  << "January", "February", "March", "April", "May", "June", "July", "August",
     "September", "October", "November", "December" >>

\* the hour of the 24-hour clock
ClaimHour24(h, meridiem) ==
  IF meridiem = "am" THEN (IF h = 12 THEN 0 ELSE h)
  ELSE (IF h = 12 THEN 12 ELSE h + 12)

ClaimAppointment(f) ==
  ClaimWeekdayNames[ClaimZeller(f[3], f[1], f[2]) + 1] \o ", "
    \o ClaimMonthNames[f[1]] \o " " \o ClaimStr(f[2])

ClaimTime(f) == ClaimPad(ClaimHour24(f[4], f[7])) \o ":" \o ClaimPad(f[5])

\* C12: for every date-time parse_datetime accepts, Time is the zero-padded
\* 24-hour HH:MM of the 12-hour input, the seconds dropped, and Appointment is
\* "<weekday>, <month> <day without leading zero>" of that date, without the year.
C12_AppointmentAndTime ==
  pc = "returned" /\ ret # EmptyPair =>
     \E f \in ClaimReadings(Strip(arg)) :
        ret = << ClaimAppointment(f), ClaimTime(f) >>

\* an hour of 12 AM became 00 and a day lost its leading zero
C12_Witness ==
  /\ pc = "returned"
  /\ ret # EmptyPair
  /\ SubSeq(ret[2], 1, 2) = "00"
  /\ \E f \in ClaimReadings(Strip(arg)) : f[4] = 12 /\ f[7] = "am" /\ f[2] = 1

EmptyTriple == << "", "", "" >>

\* exactly four characters, each a digit
FourDigits(w) == Len(w) = 4 /\ \A n \in 1..4 : Char(w, n) \in Digits

\* C13: parse_vehicle returns the empty triple when the string is empty, shorter
\* than 5 characters, of fewer than 2 tokens, or its first token is not exactly 4
\* digits; otherwise the last two characters of the first token, the second
\* token, and the other tokens joined by single blanks ("" when there are none).
C13_ParseVehicle ==
  pc = "returned" =>
     LET ws == Split(arg)
         n  == Len(ws)
     IN  IF arg = "" \/ Len(arg) < 5 \/ n < 2 THEN ret = EmptyTriple
         ELSE IF ~FourDigits(ws[1]) THEN ret = EmptyTriple
         ELSE /\ Len(ret) = 3
              /\ ret[1] = SubSeq(ws[1], 3, 4)
              /\ ret[2] = ws[2]
              /\ n = 2 => ret[3] = ""
              /\ n > 2 => ret[3] = Join([m \in 1..(n - 2) |-> ws[m + 2]], " ")

\* a vehicle of three tokens was decomposed, its year not a repeated pair
C13_Witness ==
  /\ pc = "returned"
  /\ ret # EmptyTriple
  /\ ret[3] # ""
  /\ ret[1] # SubSeq(arg, 1, 2)

ClaimVehicleText(n) == ClaimCell(data_rows[n], headers, "Vehicle")

\* the (Appointment, Time) the row's Appointment Date splits into
ClaimSplit(n) == parse_datetime(ClaimCell(data_rows[n], headers, "Appointment Date"))

ClaimFilters(n) ==
  /\ Len(ClaimVehicleText(n)) >= 5
  /\ ClaimSplit(n)[1] # ""
  /\ ClaimSplit(n)[2] # ""

ClaimDedupKey(n) == << ClaimCell(data_rows[n], headers, "VIN"), ClaimSplit(n) >>

\* an earlier row that passed the filters has the row's non-empty Vin,
\* Appointment and Time (the first such row is the accepted one)
ClaimDuplicate(n) ==
  /\ ClaimCell(data_rows[n], headers, "VIN") # ""
  /\ \E m \in 1..(n - 1) : ClaimFilters(m) /\ ClaimDedupKey(m) = ClaimDedupKey(n)

\* data row n is in what the call returned
Emitted(n) == pc = "done" /\ n \in Range(accepted_idx)

\* C14: once the call has ended on a file whose header holds every required
\* name, a data row is emitted if and only if its Vehicle has at least 5
\* characters, its Appointment Date splits into a non-empty Appointment and Time
\* and it is no duplicate of an earlier accepted row; an emitted row whose Vehicle
\* does not decompose has empty Year, Make and Model.
C14_EmittedIffQualifies ==
  (Terminal /\ HeaderLocated /\ ClaimRequired \subseteq HeaderSet(headers)) =>
     \A n \in 1..Len(data_rows) :
        /\ Emitted(n) <=> (ClaimFilters(n) /\ ~ClaimDuplicate(n))
        /\ (Emitted(n) /\ parse_vehicle(ClaimVehicleText(n)) = EmptyTriple) =>
              \E j \in 1..Len(output_rows) :
                 /\ accepted_idx[j] = n
                 /\ output_rows[j]["Year"] = ""
                 /\ output_rows[j]["Make"] = ""
                 /\ output_rows[j]["Model"] = ""

\* C17: the Lender of every emitted row is the row's trimmed Bank Name when that
\* is not empty, otherwise the row's trimmed P/L, otherwise empty.
C17_LenderFromBankNameOrPL ==
  \A j \in 1..Len(output_rows) :
     LET row  == data_rows[accepted_idx[j]]
         bank == ClaimCell(row, headers, "Bank Name")
     IN  output_rows[j]["Lender"] = IF bank # "" THEN bank ELSE ClaimCell(row, headers, "P/L")

\* the empty results of the four normalizers
EmptyResults == {<< "" >>, << "", "" >>, << "", "", "" >>}

\* C15: each of the four normalizers returns a value for every string and raises
\* nothing; for the empty string and for a string of whitespace only the value
\* is the empty result.
C15_NormalizersTotal ==
  pc = "returned" =>
     /\ ret # << "IndexError" >>
     /\ Strip(arg) = "" => ret \in EmptyResults

\* an invocation run from entry to end with no other invocation about
RECURSIVE RunAlone(_)
RunAlone(c) == IF Ended(c) THEN c ELSE RunAlone(CallStep(<< c >>, 1))

\* what each input gives when it is converted alone
AloneResult == [text \in CallTexts |-> RunAlone(StartCall(text)).result]

\* C16: however the steps of the invocations interleave, each ends with what it
\* gives when run alone (a key seen by one makes no other drop a row), and two
\* invocations on the same input end with the same result.
C16_CallsIndependent ==
  /\ \A id \in DOMAIN calls :
       Ended(calls[id]) => calls[id].result = AloneResult[calls[id].file_content]
  /\ \A a, b \in DOMAIN calls :
       (Ended(calls[a]) /\ Ended(calls[b]) /\ calls[a].file_content = calls[b].file_content)
          => calls[a].result = calls[b].result

\* two invocations are in their row loops together, each having accepted a row
\* of the same key, and one of them has a further row to take
C16_Witness ==
  \E a, b \in DOMAIN calls :
     /\ a # b
     /\ calls[a].pc = "rows" /\ calls[b].pc = "rows"
     /\ calls[a].seen \cap calls[b].seen # {}
     /\ calls[a].k < Len(calls[a].all_rows) - calls[a].header_idx - 1

=============================================================================
